---- MODULE Spec2Model ----
(***************************************************************************)
(* frp-pong: the driver/component runtime (run, stateful), the canvas sink *)
(* (makeCanvasDriver, draw) and the Draw algebra (and, all, gen) of        *)
(* src/index.ts, on the RxJS 6 semantics of the operators the code uses.   *)
(*                                                                         *)
(* Six specifications share the definitions:                              *)
(*   Spec      run(drivers)(stateful(initial, comp)) and everything that   *)
(*             happens afterwards (reducers, animation frames, teardown);  *)
(*   SpecDraw  all(draws) followed by draw(canvas, all(draws));            *)
(*   SpecWire  the type of run's parameter, then run;                      *)
(*   SpecDom   one capability of makeDOMDriver requested and subscribed;   *)
(*   SpecPong  the Pong state under tickBall and paddle-motion reducers;   *)
(*   SpecKeys  the pressed-key list under keydown and keyup events.        *)
(***************************************************************************)
EXTENDS Integers, Sequences, FiniteSets, TLC

VARIABLES
    \* ---- run(drivers)(component) ----
    drivers,        \* the driver set: a sequence of [key, tag], in Object.keys order
    outputs,        \* the keys of the output record the inner component returns
    reactive,       \* the inner component's state output also reacts to its state input
    requires,       \* the input keys the component given to run declares
    el,             \* the element given to makeCanvasDriver: "canvas" or "null"
    initial,        \* the initial state given to stateful
    pc,             \* position of run: typecheck, rejected, start, component, sinks, running
    idx,            \* index of the second forEach over Object.keys(drivers)
    activatedAt,    \* how many values the fold had produced when run subscribed
    sources,        \* run's `sources` record
    invocations,    \* the input records the component given to run was called with
    innerInputs,    \* the input records stateful called the inner component with
    sinks,          \* the output record the component returned to run (its keys)
    returned,       \* the output record stateful returned: key to stream
    received,       \* per driver key: the streams its receive was called with
    handle,         \* the Subscription run returns: none, open, released, errored
    sinkActive,     \* per sink key: its receive stream is subscribed
    reported,       \* errors handed to hostReportError
    \* ---- stateful ----
    acc,            \* scan's running value
    applied,        \* the reducers that arrived on the state output and were applied
    folded,         \* the values the fold produced, in order
    stateSubscribed,\* `reduced` is subscribed to the state output's sources
    loopback,       \* the Subject: open or errored
    observers,      \* the Subject's observers, in subscription order
    observed,       \* what the consumer of the state input has been delivered
    reacted,        \* what the reacting part of the state output has been delivered
    broadcast,      \* the values loopback.next was called with, in call order
    \* ---- canvas sink ----
    frameQueue,     \* notifications observeOn scheduled for the next animation frame
    throttled,      \* throttleTime's timer is pending
    flushed,        \* how many Draws the last animation-frame flush held
    rendered,       \* the Draws draw() was applied to without a throw
    signals,        \* values the sinks' receive streams produced (completion signals)
    auxSeen,        \* values the aux sink processed
    \* ---- all / draw ----
    dpc,            \* off, compose, failed, draw, done, redone
    dseq,           \* the argument of all
    composed,       \* what all returned
    regrouped,      \* the same three Draws composed as and(a, and(b, c))
    canvasCalls,    \* the operations draw applied to the 2d context
    \* ---- makeDOMDriver ----
    node,           \* the element the selector matches now: its id, 0 for none
    created,        \* how many elements have matched the selector so far
    clientSize,     \* clientWidth and clientHeight of the element in the document
    req,            \* the capability requested and the element querySelector gave it
    stream,         \* the Observable the capability returned
    warnings,       \* calls of console.warn
    dsub,           \* the subscriber to that Observable: none, open, error, complete
    emitted,        \* the values the subscriber was given
    samples,        \* the sizes read at the ticks, in order
    lastKey,        \* distinctUntilChanged's key
    domEvents,      \* events dispatched so far
    ticks,          \* ticks of the sample interval so far
    \* ---- the Pong example ----
    psize,          \* the canvas size the ball is ticked against
    pong,           \* the PongState
    keys,           \* the pressed-key list the paddle-motion scan holds
    lastEvent,      \* per key: the kind of its most recent event, or none
    keyEvents       \* key events so far

runVars == <<drivers, outputs, el, initial, pc, idx, activatedAt, sources, invocations,
             innerInputs, sinks, returned, received, handle, sinkActive, reported>>
stateVars == <<acc, applied, folded, stateSubscribed, loopback, observers, observed,
               reacted, broadcast>>
canvasVars == <<frameQueue, throttled, flushed, rendered, signals, auxSeen>>
domVars == <<node, created, clientSize, req, stream, warnings, dsub, emitted, samples,
             lastKey, domEvents, ticks>>
pongVars == <<psize, pong, keys, lastEvent, keyEvents>>
restVars == <<reactive, requires, domVars, pongVars>>
drawVars == <<dpc, dseq, composed, regrouped, canvasCalls>>
vars == <<runVars, stateVars, canvasVars, drawVars, restVars>>

(***************************************************************************)
(* Bounds of the model.                                                    *)
(***************************************************************************)
MaxReducers == 3
MaxSync == 1
MaxAux == 1
MaxDraws == 3
MaxTicks == 3
MaxDomEvents == 2
MaxElements == 2
MaxPaddleSteps == 2
MaxPressed == 2
MaxKeyEvents == 4

(***************************************************************************)
(* Program constants.                                                      *)
(***************************************************************************)
BALL_RADIUS == 10
PADDLE_WIDTH == 10
LEFT_PADDLE == 20
PADDLE_HEIGHT == 50

RECURSIVE SeqsUpTo(_, _)
SeqsUpTo(S, n) ==
    IF n = 0 THEN {<<>>}
    ELSE LET shorter == SeqsUpTo(S, n - 1)
         IN  shorter \cup {Append(s, x) : s \in shorter, x \in S}

(***************************************************************************)
(* The Draw algebra.                                                       *)
(***************************************************************************)
DrawOpTags == {"FillRect", "FillStyle", "BeginPath", "ClearRect", "Arc",
               "Stroke", "Fill", "StrokeStyle"}

And(first, second) == [tag |-> "And", first |-> first, second |-> second]

andSwapped(first, second) == And(second, first)

and(first, second) == And(first, second)

fillRect(x, y, width, height) == [tag |-> "FillRect", args |-> <<x, y, width, height>>]
fillStyle(style) == [tag |-> "FillStyle", args |-> <<style>>]
strokeStyle(style) == [tag |-> "StrokeStyle", args |-> <<style>>]
beginPath == [tag |-> "BeginPath", args |-> <<>>]
clearRect(x, y, width, height) == [tag |-> "ClearRect", args |-> <<x, y, width, height>>]
arc(x, y, r, sAngle, eAngle) == [tag |-> "Arc", args |-> <<x, y, r, sAngle, eAngle>>]
stroke == [tag |-> "Stroke", args |-> <<>>]
fill == [tag |-> "Fill", args |-> <<>>]

\* draws.reduce(and): no initial value, so the first element seeds the fold
\* and an empty array throws a TypeError.
RECURSIVE reduceAnd(_, _, _)
reduceAnd(draws, i, accum) ==
    IF i > Len(draws) THEN accum
    ELSE reduceAnd(draws, i + 1, and(accum, draws[i]))

allSeeded(draws) ==
    IF draws = <<>> THEN beginPath ELSE reduceAnd(draws, 2, draws[1])

all(draws) ==
    IF draws = <<>> THEN [tag |-> "TypeError"] ELSE reduceAnd(draws, 2, draws[1])

\* d.gen(), run to exhaustion: the DrawOps it yields, in order.
RECURSIVE gen(_)
genYieldsSecond(d) ==
    IF d.tag = "And" THEN gen(d.first) \o <<d.second>> ELSE <<d>>

gen(d) ==
    IF d.tag = "And" THEN gen(d.first) \o gen(d.second) ELSE <<d>>

\* drawImpl(ctx, draw): the operations applied to the context. The switch has
\* no case for DrawType.StrokeStyle, so that op falls through and does nothing.
drawImpl(op) ==
    CASE op.tag = "BeginPath" -> <<[call |-> "beginPath", args |-> <<>>]>>
      [] op.tag = "ClearRect" -> <<[call |-> "clearRect", args |-> op.args]>>
      [] op.tag = "FillRect" -> <<[call |-> "fillRect", args |-> op.args]>>
      [] op.tag = "FillStyle" -> <<[call |-> "fillStyle=", args |-> op.args]>>
      [] op.tag = "Arc" -> <<[call |-> "arc", args |-> op.args]>>
      [] op.tag = "Fill" -> <<[call |-> "fill", args |-> <<>>]>>
      [] op.tag = "Stroke" -> <<[call |-> "stroke", args |-> <<>>]>>
      [] OTHER -> <<>>

RECURSIVE drawLoop(_, _, _)
drawLoop(ops, i, calls) ==
    IF i > Len(ops) THEN calls
    ELSE drawLoop(ops, i + 1, calls \o drawImpl(ops[i]))

\* draw(canvas, draw): canvas.getContext on a null canvas throws a TypeError
\* before anything is drawn.
draw(canvas, d) ==
    IF canvas = "null"
    THEN [threw |-> TRUE, calls |-> <<>>]
    ELSE [threw |-> FALSE, calls |-> drawLoop(gen(d), 1, <<>>)]

\* drawState(size, state) of the Pong example.
drawState(size, state) ==
    all(<<clearRect(0, 0, size.width, size.height),
          beginPath,
          strokeStyle("black"),
          fillStyle("black"),
          arc(state.ball.x, state.ball.y, BALL_RADIUS, 0, 360),
          stroke,
          fillRect(LEFT_PADDLE - PADDLE_WIDTH, state.leftPaddle, PADDLE_WIDTH, PADDLE_HEIGHT),
          fillRect(size.width - LEFT_PADDLE, state.rightPaddle, PADDLE_WIDTH, PADDLE_HEIGHT)>>)

(***************************************************************************)
(* SpecDraw: all(dseq), then draw(canvas, all(dseq)).                      *)
(***************************************************************************)
DrawSamples ==
    {fillRect(1, 1, 2, 2), clearRect(0, 0, 10, 10), fillStyle("black"),
     strokeStyle("black"), beginPath, arc(5, 5, BALL_RADIUS, 0, 360), stroke, fill,
     fillRect(3, 3, 2, 2),
     And(clearRect(0, 0, 10, 10), fillRect(1, 1, 2, 2)),
     And(beginPath, And(arc(5, 5, BALL_RADIUS, 0, 360), stroke))}

\* No capability of the DOM driver has been requested.
Detached == [width |-> 0, height |-> 0]

DomIdle ==
    /\ node = 0 /\ created = 0 /\ clientSize = Detached
    /\ req = [cap |-> "none", node |-> 0] /\ stream = [op |-> "none"]
    /\ warnings = 0 /\ dsub = "none" /\ emitted = <<>> /\ samples = <<>>
    /\ lastKey = [has |-> FALSE, value |-> Detached]
    /\ domEvents = 0 /\ ticks = 0

\* The Pong example is not loaded.
KeyNames == {"w", "s", "ArrowUp", "ArrowDown", "q"}

PongIdle ==
    /\ psize = [width |-> 0, height |-> 0]
    /\ pong = [ball |-> [x |-> 0, y |-> 0], velocity |-> [x |-> 0, y |-> 0],
               leftPaddle |-> 0, rightPaddle |-> 0]
    /\ keys = <<>>
    /\ lastEvent = [k \in KeyNames |-> "none"]
    /\ keyEvents = 0

RuntimeIdle ==
    /\ DomIdle
    /\ drivers = <<>> /\ outputs = {} /\ el = "canvas" /\ initial = 0
    /\ reactive = FALSE /\ requires = {} /\ returned = <<>>
    /\ reacted = <<>> /\ broadcast = <<>> /\ flushed = 0
    /\ pc = "off" /\ idx = 0 /\ activatedAt = -1
    /\ sources = <<>> /\ invocations = <<>> /\ innerInputs = <<>>
    /\ sinks = {} /\ received = <<>> /\ handle = "none"
    /\ sinkActive = <<>> /\ reported = 0
    /\ acc = 0 /\ applied = <<>> /\ folded = <<>> /\ stateSubscribed = FALSE
    /\ loopback = "open" /\ observers = <<>> /\ observed = <<>>
    /\ frameQueue = <<>> /\ throttled = FALSE /\ rendered = <<>>
    /\ signals = 0 /\ auxSeen = 0

InitDraw ==
    /\ RuntimeIdle
    /\ PongIdle
    /\ dpc = "compose"
    /\ dseq \in SeqsUpTo(DrawSamples, MaxDraws)
    /\ composed = [tag |-> "none"]
    /\ regrouped = [tag |-> "none"]
    /\ canvasCalls = <<>>

\* all(dseq): a TypeError leaves no Draw to go on with.
Compose ==
    /\ dpc = "compose"
    /\ composed' = all(dseq)
    /\ dpc' = IF composed'.tag = "TypeError" THEN "failed" ELSE "draw"
    /\ UNCHANGED <<dseq, regrouped, canvasCalls, runVars, stateVars, canvasVars, restVars>>

\* and(a, and(b, c)) of the three Draws all composed as and(and(a, b), c).
Regroup ==
    /\ dpc \in {"draw", "done", "redone"}
    /\ Len(dseq) = 3
    /\ regrouped.tag = "none"
    /\ regrouped' = and(dseq[1], and(dseq[2], dseq[3]))
    /\ UNCHANGED <<dpc, dseq, composed, canvasCalls, runVars, stateVars, canvasVars, restVars>>

Draw ==
    /\ dpc = "draw"
    /\ canvasCalls' = draw("canvas", composed).calls
    /\ dpc' = "done"
    /\ UNCHANGED <<dseq, composed, regrouped, runVars, stateVars, canvasVars, restVars>>

\* draw(canvas, d) a second time on the same Draw: a new generator each time.
Redraw ==
    /\ dpc = "done"
    /\ canvasCalls' = canvasCalls \o draw("canvas", composed).calls
    /\ dpc' = "redone"
    /\ UNCHANGED <<dseq, composed, regrouped, runVars, stateVars, canvasVars, restVars>>

NextDraw == Compose \/ Regroup \/ Draw \/ Redraw

SpecDraw == InitDraw /\ [][NextDraw]_vars

(***************************************************************************)
(* Drivers.                                                                *)
(***************************************************************************)
Provide(key) == [capability |-> key]

sinkDriver(key) == [key |-> key, tag |-> "SinkOnly", provide |-> [capability |-> "none"]]
sourceDriver(key) == [key |-> key, tag |-> "SourceOnly", provide |-> Provide(key)]
fullDriver(key) == [key |-> key, tag |-> "Full", provide |-> Provide(key)]

\* The driver set of index.ts (dom, draws), alone and with a third driver of
\* each receiving variant.
DriverSets ==
    {<<sourceDriver("dom"), sinkDriver("draws")>>,
     <<sourceDriver("dom"), sinkDriver("draws"), sinkDriver("aux")>>,
     <<sourceDriver("dom"), sinkDriver("draws"), fullDriver("aux")>>}

HasProvideSourceOnly(drv) == drv.tag = "SourceOnly"

HasProvide(drv) == drv.tag = "SourceOnly" \/ drv.tag = "Full"

HasReceive(drv) == drv.tag = "SinkOnly" \/ drv.tag = "Full"

Keys(drvs) == {drvs[i].key : i \in DOMAIN drvs}
SinkKeys(drvs) == {drvs[i].key : i \in {j \in DOMAIN drvs : HasReceive(drvs[j])}}

\* The first forEach of run: sources[key] = drv.provide for Source and Full drivers.
CollectSources(drvs) ==
    LET withProvide == {j \in DOMAIN drvs : HasProvide(drvs[j])}
    IN  [k \in {drvs[j].key : j \in withProvide} |->
            (CHOOSE d \in {drvs[j] : j \in withProvide} : d.key = k).provide]

OutputStream(key) == [stream |-> key]
NEVER == [stream |-> "NEVER"]
Undefined == [stream |-> "undefined"]

RoutedNoFallback(out, key) == IF key \in out THEN OutputStream(key) ELSE Undefined

\* sinks[key] || NEVER
Routed(out, key) == IF key \in out THEN OutputStream(key) ELSE NEVER

(***************************************************************************)
(* Reducers and the fold of stateful.                                      *)
(***************************************************************************)
Reducers == {"id", "inc", "dbl", "throw"}
InitialStates == {0, 1}

\* f(s) for the reducers x => x, x => x + 1, x => x * 2.
Apply(f, s) ==
    CASE f = "id" -> s
      [] f = "inc" -> s + 1
      [] f = "dbl" -> s * 2

scanFromSeed(s, f) == Apply(f, initial)

\* scan's accumulator: (s, f) => f(s)
scanStep(s, f) == Apply(f, s)

\* The test component's rendering of a state: the state is the ball's position.
Size == [width |-> 60, height |-> 60]
Frame(s) == drawState(Size, [ball |-> [x |-> s, y |-> s], leftPaddle |-> 10, rightPaddle |-> 40])

\* The reacting test component: its state output is the merge of its outside
\* sources and of its state input mapped to a reducer, here x => x * 2 in
\* answer to the state 1 (and nothing in answer to any other state).
React(v) == IF v = 1 THEN "dbl" ELSE "none"

\* The part of the state a value travelling round the loop touches.
Loop == [acc |-> acc, applied |-> applied, folded |-> folded,
         stateSubscribed |-> stateSubscribed, loopback |-> loopback,
         observers |-> observers, observed |-> observed, reacted |-> reacted,
         broadcast |-> broadcast, frameQueue |-> frameQueue]

RECURSIVE scanNext(_, _)
RECURSIVE loopbackNext(_, _)
RECURSIVE deliver(_, _, _, _)

\* Subject.next(v): for (i < len) copy[i].next(v), over a copy of the observers
\* taken when the call starts. The draws output maps the state to a Draw that
\* observeOn schedules for the next animation frame; the reacting state output
\* answers inside its next(), which re-enters scan and the Subject before the
\* observers after it have been given v.
deliver(st, copy, i, v) ==
    IF i > Len(copy) THEN st
    ELSE IF \A j \in DOMAIN st.observers : st.observers[j] # copy[i]
         THEN deliver(st, copy, i + 1, v)
    ELSE IF copy[i] = "draws"
         THEN deliver([st EXCEPT !.observed = Append(@, v),
                                 !.frameQueue = Append(@, [kind |-> "N", draw |-> Frame(v)])],
                      copy, i + 1, v)
    ELSE LET got == [st EXCEPT !.reacted = Append(@, v)]
         IN  deliver(IF React(v) = "none" THEN got ELSE scanNext(got, React(v)),
                     copy, i + 1, v)

loopbackNext(st, v) ==
    IF st.loopback # "open" THEN st
    ELSE deliver([st EXCEPT !.broadcast = Append(@, v)], st.observers, 1, v)

\* loopback.error(e): the Subject stops and errors its observers; the error
\* travels down the draws chain and is scheduled like a value.
loopbackError(st) ==
    [st EXCEPT !.loopback = "errored",
               !.observers = <<>>,
               !.frameQueue = IF \A j \in DOMAIN st.observers : st.observers[j] # "draws"
                              THEN @
                              ELSE Append(@, [kind |-> "E"])]

\* scan followed by a distinctUntilChanged in front of the loopback.
scanNextDistinct(st, f) ==
    IF f = "throw"
    THEN loopbackError([st EXCEPT !.stateSubscribed = FALSE])
    ELSE LET v == scanStep(st.acc, f)
             next == [st EXCEPT !.acc = v, !.applied = Append(@, f), !.folded = Append(@, v)]
         IN  IF v = st.acc THEN next ELSE loopbackNext(next, v)

\* One value through scan((s, f) => f(s), initial) into the loopback.
scanNext(st, f) ==
    IF f = "throw"
    THEN loopbackError([st EXCEPT !.stateSubscribed = FALSE])
    ELSE LET v == scanStep(st.acc, f)
         IN  loopbackNext([st EXCEPT !.acc = v,
                                     !.applied = Append(@, f),
                                     !.folded = Append(@, v)], v)

RECURSIVE scanAll(_, _, _)
scanAll(st, fs, i) ==
    IF i > Len(fs) \/ ~st.stateSubscribed THEN st
    ELSE scanAll(scanNext(st, fs[i]), fs, i + 1)

SetLoop(st) ==
    /\ acc' = st.acc
    /\ applied' = st.applied
    /\ folded' = st.folded
    /\ stateSubscribed' = st.stateSubscribed
    /\ loopback' = st.loopback
    /\ observers' = st.observers
    /\ observed' = st.observed
    /\ reacted' = st.reacted
    /\ broadcast' = st.broadcast
    /\ frameQueue' = st.frameQueue

\* { ...inputs, state: loopback }
onlyState(inputs) == [k \in {"state"} |-> [capability |-> "loopback"]]

withState(inputs) ==
    [k \in DOMAIN inputs \cup {"state"} |->
        IF k = "state" THEN [capability |-> "loopback"] ELSE inputs[k]]

\* The output record of the inner component: a stream per key, state among them.
InnerSinks(out) == [k \in out |-> OutputStream(k)]

\* delete sinks.state
deleteState(rec) == [k \in DOMAIN rec \ {"state"} |-> rec[k]]

(***************************************************************************)
(* run(drivers)(stateful(initial, component))                              *)
(***************************************************************************)
Init ==
    /\ DomIdle
    /\ PongIdle
    /\ drivers \in DriverSets
    /\ outputs \in {o \cup {"state"} : o \in SUBSET SinkKeys(drivers)}
    /\ el \in {"canvas", "null"}
    /\ initial \in InitialStates
    /\ reactive \in BOOLEAN
    /\ requires = {"dom"}
    /\ pc = "start" /\ idx = 0 /\ activatedAt = -1
    /\ sources = <<>> /\ invocations = <<>> /\ innerInputs = <<>>
    /\ sinks = {} /\ returned = <<>>
    /\ received = [k \in Keys(drivers) |-> <<>>]
    /\ handle = "none"
    /\ sinkActive = [k \in SinkKeys(drivers) |-> FALSE]
    /\ reported = 0
    /\ acc = initial /\ applied = <<>> /\ folded = <<>> /\ stateSubscribed = FALSE
    /\ loopback = "open" /\ observers = <<>> /\ observed = <<>>
    /\ reacted = <<>> /\ broadcast = <<>>
    /\ frameQueue = <<>> /\ throttled = FALSE /\ flushed = 0 /\ rendered = <<>>
    /\ signals = 0 /\ auxSeen = 0
    /\ dpc = "off" /\ dseq = <<>> /\ composed = [tag |-> "none"]
    /\ regrouped = [tag |-> "none"] /\ canvasCalls = <<>>

RunSources ==
    /\ pc = "start"
    /\ sources' = CollectSources(drivers)
    /\ pc' = "component"
    /\ UNCHANGED <<drivers, outputs, el, initial, idx, activatedAt, invocations,
                   innerInputs, sinks, returned, received, handle, sinkActive, reported,
                   stateVars, canvasVars, drawVars, restVars>>

\* component(sources), the component being stateful(initial, comp): the inner
\* component is called with the loopback as its state input, `reduced` is
\* subscribed with the loopback as its observer (the identity reducer goes
\* through at once, then the state output is subscribed, which subscribes its
\* reacting part to the state input, then whatever the state output emits on
\* subscription), and the output record is returned without its state key.
RunComponent ==
    /\ pc = "component"
    /\ invocations' = Append(invocations, sources)
    /\ innerInputs' = Append(innerInputs, withState(sources))
    /\ \E sync \in SeqsUpTo(Reducers, MaxSync) :
          LET seeded == loopbackNext([Loop EXCEPT !.acc = scanStep(initial, "id"),
                                                  !.folded = <<scanStep(initial, "id")>>],
                                     scanStep(initial, "id"))
              subscribed == [seeded EXCEPT !.stateSubscribed = TRUE,
                                           !.observers = IF reactive THEN Append(@, "react")
                                                         ELSE @]
          IN  SetLoop(scanAll(subscribed, sync, 1))
    /\ returned' = deleteState(InnerSinks(outputs))
    /\ sinks' = DOMAIN returned'
    /\ pc' = "sinks"
    /\ idx' = 1
    /\ UNCHANGED <<drivers, outputs, el, initial, activatedAt, sources, received,
                   handle, sinkActive, reported, throttled, flushed, rendered, signals,
                   auxSeen, drawVars, restVars>>

\* One iteration of the second forEach of run.
RunReceive ==
    /\ pc = "sinks"
    /\ idx <= Len(drivers)
    /\ received' = IF HasReceive(drivers[idx])
                   THEN [received EXCEPT ![drivers[idx].key] =
                            Append(@, Routed(sinks, drivers[idx].key))]
                   ELSE received
    /\ idx' = idx + 1
    /\ UNCHANGED <<drivers, outputs, el, initial, pc, activatedAt, sources,
                   invocations, innerInputs, sinks, returned, handle, sinkActive,
                   reported, stateVars, canvasVars, drawVars, restVars>>

\* from(sunk).pipe(mergeAll()).subscribe(): every receive stream is subscribed.
\* Subscribing the canvas chain subscribes the draws output, which subscribes
\* the state input; a Subject that has errored errors a late subscriber at once.
RunSubscribe ==
    /\ pc = "sinks"
    /\ idx > Len(drivers)
    /\ handle' = "open"
    /\ sinkActive' = [k \in SinkKeys(drivers) |-> TRUE]
    /\ activatedAt' = Len(folded)
    /\ IF "draws" \in sinks /\ received["draws"] = <<OutputStream("draws")>>
       THEN IF loopback = "errored"
            THEN /\ frameQueue' = Append(frameQueue, [kind |-> "E"])
                 /\ observers' = observers
            ELSE /\ observers' = Append(observers, "draws")
                 /\ frameQueue' = frameQueue
       ELSE UNCHANGED <<observers, frameQueue>>
    /\ pc' = "running"
    /\ UNCHANGED <<drivers, outputs, el, initial, idx, sources, invocations,
                   innerInputs, sinks, returned, received, reported, acc, applied,
                   folded, stateSubscribed, loopback, observed, reacted, broadcast,
                   throttled, flushed, rendered, signals, auxSeen, drawVars, restVars>>

(***************************************************************************)
(* Events after run has returned.                                          *)
(***************************************************************************)
\* A source of the state output (the tick interval, a key listener) fires and
\* a reducer arrives at scan. Nothing but an error ends this subscription.
ReducerArrives ==
    /\ pc = "running"
    /\ stateSubscribed
    /\ Len(applied) < MaxReducers
    /\ \E f \in Reducers : SetLoop(scanNext(Loop, f))
    /\ UNCHANGED <<runVars, throttled, flushed, rendered, signals, auxSeen, drawVars,
                   restVars>>

\* The aux output emits and the aux driver's receive stream processes the value.
AuxEmits ==
    /\ pc = "running"
    /\ "aux" \in sinks
    /\ "aux" \in DOMAIN sinkActive
    /\ sinkActive["aux"]
    /\ auxSeen < MaxAux
    /\ auxSeen' = auxSeen + 1
    /\ signals' = signals + 1
    /\ UNCHANGED <<runVars, stateVars, frameQueue, throttled, flushed, rendered,
                   drawVars, restVars>>

\* What ends the Subscription of run: every receive stream is unsubscribed, the
\* scheduled animation-frame actions and the throttle timer are cancelled and
\* the draws consumer of the state input leaves the Subject.
TeardownKeepsChains(why) ==
    [handle |-> why, sinkActive |-> sinkActive, frameQueue |-> frameQueue,
     throttled |-> throttled, observers |-> observers]

Teardown(why) ==
    [handle |-> why, sinkActive |-> [k \in DOMAIN sinkActive |-> FALSE],
     frameQueue |-> <<>>, throttled |-> FALSE,
     observers |-> SelectSeq(observers, LAMBDA o : o # "draws")]

\* The animation-frame flush. Each scheduled notification is delivered in turn:
\* throttleTime(1) lets the first value through and drops values while its
\* timer is pending; map applies draw; an error (a scheduled one, or a throw of
\* draw) reaches the subscriber of mergeAll, which has no error handler.
RECURSIVE flush(_, _, _)
\* The flush with the last value of the frame let through, not the first.
flushLatest(q, i, st) ==
    LET ns == SelectSeq(q, LAMBDA n : n.kind = "N")
        drawn == IF ns = <<>> \/ st.throttled THEN st
                 ELSE IF draw(el, ns[Len(ns)].draw).threw
                      THEN [st EXCEPT !.throttled = TRUE, !.failed = TRUE]
                      ELSE [st EXCEPT !.throttled = TRUE,
                                      !.rendered = Append(@, ns[Len(ns)].draw),
                                      !.signals = @ + 1]
    IN  IF Len(ns) < Len(q) THEN [drawn EXCEPT !.failed = TRUE] ELSE drawn

flush(q, i, st) ==
    IF i > Len(q) \/ st.failed THEN st
    ELSE IF q[i].kind = "E" THEN [st EXCEPT !.failed = TRUE]
    ELSE IF st.throttled THEN flush(q, i + 1, st)
    ELSE IF draw(el, q[i].draw).threw
         THEN [st EXCEPT !.throttled = TRUE, !.failed = TRUE]
         ELSE flush(q, i + 1, [st EXCEPT !.throttled = TRUE,
                                         !.rendered = Append(@, q[i].draw),
                                         !.signals = @ + 1])

AnimationFrame ==
    /\ frameQueue # <<>>
    /\ LET st == flush(frameQueue, 1, [throttled |-> throttled, rendered |-> rendered,
                                       signals |-> signals, failed |-> FALSE])
       IN  /\ rendered' = st.rendered
           /\ signals' = st.signals
           /\ flushed' = Len(SelectSeq(frameQueue, LAMBDA n : n.kind = "N"))
           /\ IF st.failed
              THEN LET t == Teardown("errored")
                   IN  /\ handle' = t.handle
                       /\ sinkActive' = t.sinkActive
                       /\ frameQueue' = t.frameQueue
                       /\ throttled' = t.throttled
                       /\ observers' = t.observers
                       /\ reported' = reported + 1
              ELSE /\ frameQueue' = <<>>
                   /\ throttled' = st.throttled
                   /\ UNCHANGED <<handle, sinkActive, observers, reported>>
    /\ UNCHANGED <<drivers, outputs, el, initial, pc, idx, activatedAt, sources,
                   invocations, innerInputs, sinks, returned, received, acc, applied,
                   folded, stateSubscribed, loopback, observed, reacted, broadcast,
                   auxSeen, drawVars, restVars>>

\* throttleTime's 1 ms timer fires.
ThrottleExpires ==
    /\ throttled
    /\ throttled' = FALSE
    /\ UNCHANGED <<runVars, stateVars, frameQueue, flushed, rendered, signals, auxSeen,
                   drawVars, restVars>>

\* sub.unsubscribe() on the Subscription run returned.
Unsubscribe ==
    /\ handle = "open"
    /\ LET t == Teardown("released")
       IN  /\ handle' = t.handle
           /\ sinkActive' = t.sinkActive
           /\ frameQueue' = t.frameQueue
           /\ throttled' = t.throttled
           /\ observers' = t.observers
    /\ UNCHANGED <<drivers, outputs, el, initial, pc, idx, activatedAt, sources,
                   invocations, innerInputs, sinks, returned, received, reported, acc,
                   applied, folded, stateSubscribed, loopback, observed, reacted,
                   broadcast, flushed, rendered, signals, auxSeen, drawVars, restVars>>

Next ==
    \/ RunSources
    \/ RunComponent
    \/ RunReceive
    \/ RunSubscribe
    \/ ReducerArrives
    \/ AuxEmits
    \/ AnimationFrame
    \/ ThrottleExpires
    \/ Unsubscribe

Spec == Init /\ [][Next]_vars

(***************************************************************************)
(* SpecWire: the type of run's parameter, InferComponent<D, C>, is worked  *)
(* out for the driver set and the component, and run is entered only with  *)
(* a component that parameter accepts. A type is the name of its key, or   *)
(* never; an object type is a function from keys to types.                 *)
(***************************************************************************)
InT(drv) == IF drv.tag = "SourceOnly" THEN drv.key
            ELSE IF drv.tag = "Full" THEN drv.key ELSE "never"
OutT(drv) == IF drv.tag = "SinkOnly" THEN drv.key
             ELSE IF drv.tag = "Full" THEN drv.key ELSE "never"

DriverAt(drvs, k) == CHOOSE d \in {drvs[i] : i \in DOMAIN drvs} : d.key = k

CInT(drvs) == [k \in Keys(drvs) |-> InT(DriverAt(drvs, k))]
COutT(drvs) == [k \in Keys(drvs) |-> OutT(DriverAt(drvs, k))]

NeverFields(t) == {k \in DOMAIN t : t[k] = "never"}

Omit(t, ks) == [k \in DOMAIN t \ ks |-> t[k]]

ComponentSource(drvs) == Omit(CInT(drvs), NeverFields(CInT(drvs)))
ComponentSink(drvs) == Omit(COutT(drvs), NeverFields(COutT(drvs)))

\* a extends b, for object types: a has every property of b, with b's type.
Extends(a, b) == \A k \in DOMAIN b : k \in DOMAIN a /\ a[k] = b[k]

\* Component<I, O> for a component that reads the keys ins and returns the keys out.
ComponentType(ins, out) ==
    [type |-> "Component", I |-> [k \in ins |-> k], O |-> [k \in out |-> k]]

Never == [type |-> "never", I |-> <<>>, O |-> <<>>]

\* The check with the source side left out.
InferComponentSinkSideOnly(drvs, c) ==
    IF c.type # "Component" THEN Never
    ELSE IF Extends(ComponentSink(drvs), c.O) THEN c ELSE Never

InferComponent(drvs, c) ==
    IF c.type # "Component" THEN Never
    ELSE IF Extends(ComponentSource(drvs), c.I)
         THEN IF Extends(ComponentSink(drvs), c.O) THEN c ELSE Never
         ELSE Never

\* The driver sets of Spec, and two that lack a direction: the set with only
\* the SinkOnly draws driver, and the set with only the SourceOnly dom driver.
WireSets ==
    DriverSets \cup {<<sinkDriver("draws")>>, <<sourceDriver("dom")>>}

InitWire ==
    /\ DomIdle
    /\ PongIdle
    /\ drivers \in WireSets
    /\ outputs \in {o \cup {"state"} : o \in SUBSET {"draws", "aux"}}
    /\ requires \in SUBSET {"dom", "aux"}
    /\ el \in {"canvas", "null"}
    /\ initial \in InitialStates
    /\ reactive \in BOOLEAN
    /\ pc = "typecheck" /\ idx = 0 /\ activatedAt = -1
    /\ sources = <<>> /\ invocations = <<>> /\ innerInputs = <<>>
    /\ sinks = {} /\ returned = <<>>
    /\ received = [k \in Keys(drivers) |-> <<>>]
    /\ handle = "none"
    /\ sinkActive = [k \in SinkKeys(drivers) |-> FALSE]
    /\ reported = 0
    /\ acc = initial /\ applied = <<>> /\ folded = <<>> /\ stateSubscribed = FALSE
    /\ loopback = "open" /\ observers = <<>> /\ observed = <<>>
    /\ reacted = <<>> /\ broadcast = <<>>
    /\ frameQueue = <<>> /\ throttled = FALSE /\ flushed = 0 /\ rendered = <<>>
    /\ signals = 0 /\ auxSeen = 0
    /\ dpc = "off" /\ dseq = <<>> /\ composed = [tag |-> "none"]
    /\ regrouped = [tag |-> "none"] /\ canvasCalls = <<>>

\* run(drivers)(stateful(initial, comp)) is compiled: the argument, of type
\* Component<Omit<I, 'state'>, Omit<O, 'state'>>, must be assignable to
\* InferComponent<D, C>, and nothing is assignable to never.
TypeCheck ==
    /\ pc = "typecheck"
    /\ pc' = IF InferComponent(drivers,
                    ComponentType(requires, outputs \ {"state"})).type = "never"
             THEN "rejected"
             ELSE "start"
    /\ UNCHANGED <<drivers, outputs, el, initial, idx, activatedAt, sources, invocations,
                   innerInputs, sinks, returned, received, handle, sinkActive, reported,
                   stateVars, canvasVars, drawVars, restVars>>

NextWire ==
    \/ TypeCheck
    \/ RunSources
    \/ RunComponent
    \/ RunReceive
    \/ RunSubscribe

SpecWire == InitWire /\ [][NextWire]_vars

(***************************************************************************)
(* SpecDom: a capability of makeDOMDriver is requested with a selector,    *)
(* the stream it returns is subscribed, and the page goes on: events are   *)
(* dispatched, the sample interval ticks, the element is resized, removed, *)
(* replaced.                                                               *)
(***************************************************************************)
EventTypes == {"mousemove", "keydown", "keyup", "keypress"}
Capabilities == EventTypes \cup {"dimensions"}

Sizes == {[width |-> 10, height |-> 10],
          [width |-> 10, height |-> 20],
          [width |-> 20, height |-> 20]}

NeverStream == [op |-> "NEVER", target |-> 0, event |-> "none"]

\* attach without the if (node).
attachUnchecked(n, event) == [op |-> "fromEvent", target |-> n, event |-> event]

\* attach(selector, event), n being what document.querySelector(selector) gave.
attach(n, event) ==
    IF n # 0 THEN [op |-> "fromEvent", target |-> n, event |-> event]
    ELSE NeverStream

\* dimensions(selector, sampleInterval)
dimensions(n) ==
    IF n # 0 THEN [op |-> "dimensions", target |-> n, event |-> "none"]
    ELSE NeverStream

\* A comparer that looks at the width alone.
sameWidth(x, y) == x.width = y.width

\* (x, y) => x.width === y.width && x.height === y.height
sameSize(x, y) == x.width = y.width /\ x.height = y.height

\* () => ({ width: node.clientWidth, height: node.clientHeight }), node being
\* the element found at the request; out of the document it measures 0 by 0.
size(target) == IF target = node THEN clientSize ELSE Detached

InitDom ==
    /\ PongIdle
    /\ pc = "off" /\ drivers = <<>> /\ outputs = {} /\ el = "canvas" /\ initial = 0
    /\ reactive = FALSE /\ requires = {} /\ returned = <<>>
    /\ reacted = <<>> /\ broadcast = <<>> /\ flushed = 0
    /\ idx = 0 /\ activatedAt = -1
    /\ sources = <<>> /\ invocations = <<>> /\ innerInputs = <<>>
    /\ sinks = {} /\ received = <<>> /\ handle = "none"
    /\ sinkActive = <<>> /\ reported = 0
    /\ acc = 0 /\ applied = <<>> /\ folded = <<>> /\ stateSubscribed = FALSE
    /\ loopback = "open" /\ observers = <<>> /\ observed = <<>>
    /\ frameQueue = <<>> /\ throttled = FALSE /\ rendered = <<>>
    /\ signals = 0 /\ auxSeen = 0
    /\ dpc = "off" /\ dseq = <<>> /\ composed = [tag |-> "none"]
    /\ regrouped = [tag |-> "none"] /\ canvasCalls = <<>>
    /\ created \in {0, 1}
    /\ node = created
    /\ clientSize \in IF created = 0 THEN {Detached} ELSE Sizes
    /\ req = [cap |-> "none", node |-> 0] /\ stream = [op |-> "none"]
    /\ warnings = 0 /\ dsub = "none" /\ emitted = <<>> /\ samples = <<>>
    /\ lastKey = [has |-> FALSE, value |-> Detached]
    /\ domEvents = 0 /\ ticks = 0

progVars == <<runVars, stateVars, canvasVars, drawVars, reactive, requires, pongVars>>

\* sources.dom.<cap>(selector, ...)
Request ==
    /\ req.cap = "none"
    /\ \E cap \in Capabilities :
          /\ req' = [cap |-> cap, node |-> node]
          /\ stream' = IF cap = "dimensions" THEN dimensions(node) ELSE attach(node, cap)
          /\ warnings' = IF cap = "dimensions" /\ node = 0 THEN warnings + 1 ELSE warnings
    /\ UNCHANGED <<node, created, clientSize, dsub, emitted, samples, lastKey,
                   domEvents, ticks, progVars>>

\* The returned stream is subscribed. fromEvent on a target that is no event
\* target errors its subscriber (TypeError: Invalid event target).
Subscribe ==
    /\ stream.op # "none"
    /\ dsub = "none"
    /\ dsub' = IF stream.op = "fromEvent" /\ stream.target = 0 THEN "error" ELSE "open"
    /\ UNCHANGED <<node, created, clientSize, req, stream, warnings, emitted, samples,
                   lastKey, domEvents, ticks, progVars>>

\* An event is dispatched on the element the selector matches now.
DomEvent ==
    /\ node # 0
    /\ domEvents < MaxDomEvents
    /\ domEvents' = domEvents + 1
    /\ \E e \in EventTypes :
          emitted' = IF /\ dsub = "open"
                        /\ stream.op = "fromEvent"
                        /\ stream.target = node
                        /\ stream.event = e
                     THEN Append(emitted, [event |-> e])
                     ELSE emitted
    /\ UNCHANGED <<node, created, clientSize, req, stream, warnings, dsub, samples,
                   lastKey, ticks, progVars>>

\* sampleInterval emits: map reads the size, distinctUntilChanged lets it
\* through when it has no key yet or the comparer says it differs from the key.
SampleTick ==
    /\ ticks < MaxTicks
    /\ ticks' = ticks + 1
    /\ IF dsub = "open" /\ stream.op = "dimensions"
       THEN LET sz == size(stream.target)
            IN  /\ samples' = Append(samples, sz)
                /\ IF lastKey.has /\ sameSize(lastKey.value, sz)
                   THEN UNCHANGED <<emitted, lastKey>>
                   ELSE /\ emitted' = Append(emitted, sz)
                        /\ lastKey' = [has |-> TRUE, value |-> sz]
       ELSE UNCHANGED <<samples, emitted, lastKey>>
    /\ UNCHANGED <<node, created, clientSize, req, stream, warnings, dsub, domEvents,
                   progVars>>

Resize ==
    /\ node # 0
    /\ clientSize' \in Sizes \ {clientSize}
    /\ UNCHANGED <<node, created, req, stream, warnings, dsub, emitted, samples, lastKey,
                   domEvents, ticks, progVars>>

ElementAppears ==
    /\ node = 0
    /\ created < MaxElements
    /\ created' = created + 1
    /\ node' = created'
    /\ clientSize' \in Sizes
    /\ UNCHANGED <<req, stream, warnings, dsub, emitted, samples, lastKey, domEvents,
                   ticks, progVars>>

ElementRemoved ==
    /\ node # 0
    /\ node' = 0
    /\ clientSize' = Detached
    /\ UNCHANGED <<created, req, stream, warnings, dsub, emitted, samples, lastKey,
                   domEvents, ticks, progVars>>

NextDom ==
    \/ Request
    \/ Subscribe
    \/ DomEvent
    \/ SampleTick
    \/ Resize
    \/ ElementAppears
    \/ ElementRemoved

SpecDom == InitDom /\ [][NextDom]_vars

(***************************************************************************)
(* SpecPong: the PongState of index.ts under the two kinds of reducer its  *)
(* state output emits, tickBall(size) and computePaddleMotion(keys), in    *)
(* any interleaving, the canvas size fixed.                                *)
(***************************************************************************)
\* nextVelocity without its third test, the left wall.
nextVelocityNoLeftWall(csize, state) ==
    IF state.ball.y - BALL_RADIUS <= 0 /\ state.velocity.y < 0
    THEN [state.velocity EXCEPT !.y = state.velocity.y * (-1)]
    ELSE IF state.ball.y + BALL_RADIUS >= csize.height /\ state.velocity.y > 0
    THEN [state.velocity EXCEPT !.y = state.velocity.y * (-1)]
    ELSE IF state.ball.x + BALL_RADIUS >= csize.width /\ state.velocity.x > 0
    THEN [state.velocity EXCEPT !.x = state.velocity.x * (-1)]
    ELSE IF /\ state.ball.x - BALL_RADIUS <= LEFT_PADDLE
            /\ state.ball.y <= state.leftPaddle + PADDLE_HEIGHT
            /\ state.ball.y >= state.leftPaddle
    THEN [state.velocity EXCEPT !.y = state.velocity.y * (-1)]
    ELSE IF /\ state.ball.x + BALL_RADIUS >= csize.width - LEFT_PADDLE
            /\ state.ball.y <= state.rightPaddle + PADDLE_HEIGHT
            /\ state.ball.y >= state.rightPaddle
    THEN [state.velocity EXCEPT !.y = state.velocity.y * (-1)]
    ELSE state.velocity

\* The first test that holds decides: top wall, bottom wall, left wall, right
\* wall, left paddle, right paddle. The paddle tests do not look at the
\* direction of travel and invert the vertical velocity.
nextVelocity(csize, state) ==
    IF state.ball.y - BALL_RADIUS <= 0 /\ state.velocity.y < 0
    THEN [state.velocity EXCEPT !.y = state.velocity.y * (-1)]
    ELSE IF state.ball.y + BALL_RADIUS >= csize.height /\ state.velocity.y > 0
    THEN [state.velocity EXCEPT !.y = state.velocity.y * (-1)]
    ELSE IF state.ball.x - BALL_RADIUS <= 0 /\ state.velocity.x < 0
    THEN [state.velocity EXCEPT !.x = state.velocity.x * (-1)]
    ELSE IF state.ball.x + BALL_RADIUS >= csize.width /\ state.velocity.x > 0
    THEN [state.velocity EXCEPT !.x = state.velocity.x * (-1)]
    ELSE IF /\ state.ball.x - BALL_RADIUS <= LEFT_PADDLE
            /\ state.ball.y <= state.leftPaddle + PADDLE_HEIGHT
            /\ state.ball.y >= state.leftPaddle
    THEN [state.velocity EXCEPT !.y = state.velocity.y * (-1)]
    ELSE IF /\ state.ball.x + BALL_RADIUS >= csize.width - LEFT_PADDLE
            /\ state.ball.y <= state.rightPaddle + PADDLE_HEIGHT
            /\ state.ball.y >= state.rightPaddle
    THEN [state.velocity EXCEPT !.y = state.velocity.y * (-1)]
    ELSE state.velocity

tickBall(csize, state) ==
    LET velocity == nextVelocity(csize, state)
        ball == [x |-> state.ball.x + velocity.x, y |-> state.ball.y + velocity.y]
    IN  [state EXCEPT !.velocity = velocity, !.ball = ball]

\* The reducer computePaddleMotion gives one key.
keyReducer(k, state) ==
    CASE k = "w" -> [state EXCEPT !.leftPaddle = @ + (-10)]
      [] k = "s" -> [state EXCEPT !.leftPaddle = @ + 10]
      [] k = "ArrowUp" -> [state EXCEPT !.rightPaddle = @ + (-10)]
      [] k = "ArrowDown" -> [state EXCEPT !.rightPaddle = @ + 10]
      [] OTHER -> state

\* reducers.reduce((f, g) => (x) => f(g(x))) applied to state: the reducer of
\* the last key is applied first; identity for no key.
RECURSIVE computePaddleMotion(_, _)
computePaddleMotion(ks, state) ==
    IF ks = <<>> THEN state
    ELSE keyReducer(ks[1], computePaddleMotion(Tail(ks), state))

\* `initial` of index.ts.
initialPong ==
    [ball |-> [x |-> 20, y |-> 20], velocity |-> [x |-> 3, y |-> 3],
     leftPaddle |-> 10, rightPaddle |-> 400]

\* Canvas sizes from 60 by 60 on, with each remainder of the width and of the
\* height by the speed 3.
PongSizes ==
    {[width |-> 60, height |-> 61],
     [width |-> 61, height |-> 62],
     [width |-> 62, height |-> 60]}

\* Where the right paddle is when the first tick comes: at its initial 400, or
\* at 10 after ArrowUp reducers have brought it level with a canvas of PongSizes.
RightHomes == {400, 10}

\* The key lists the scan can hold: no key twice.
PressedLists ==
    {ks \in SeqsUpTo(KeyNames, MaxPressed) :
        \A i, j \in DOMAIN ks : i # j => ks[i] # ks[j]}

Near(p, home) == p - home <= 10 * MaxPaddleSteps /\ home - p <= 10 * MaxPaddleSteps

InitPong ==
    /\ RuntimeIdle
    /\ dpc = "off" /\ dseq = <<>> /\ composed = [tag |-> "none"]
    /\ regrouped = [tag |-> "none"] /\ canvasCalls = <<>>
    /\ psize \in PongSizes
    /\ \E home \in RightHomes : pong = [initialPong EXCEPT !.rightPaddle = home]
    /\ keys = <<>>
    /\ lastEvent = [k \in KeyNames |-> "none"]
    /\ keyEvents = 0

hostVars == <<runVars, stateVars, canvasVars, drawVars, reactive, requires, domVars>>

\* ballMotion emits tickBall(size) and the fold applies it.
TickBall ==
    /\ pong' = tickBall(psize, pong)
    /\ UNCHANGED <<psize, keys, lastEvent, keyEvents, hostVars>>

\* paddleMotion emits computePaddleMotion(keys) and the fold applies it.
PaddleMotion ==
    /\ pong' \in {moved \in {computePaddleMotion(ks, pong) : ks \in PressedLists} :
                      /\ Near(moved.leftPaddle, initialPong.leftPaddle)
                      /\ \E home \in RightHomes : Near(moved.rightPaddle, home)}
    /\ UNCHANGED <<psize, keys, lastEvent, keyEvents, hostVars>>

NextPong ==
    \/ TickBall
    \/ PaddleMotion

SpecPong == InitPong /\ [][NextPong]_vars

(***************************************************************************)
(* SpecKeys: the pressed-key list of Test, the scan of the reducers keyDown *)
(* and keyUp over [] that the keydown and keyup events of the element are   *)
(* mapped to.                                                               *)
(***************************************************************************)
\* pipe(as, A.filter((k) => k !== e.key))
keyUp(key, as) == SelectSeq(as, LAMBDA k : k # key)

\* The key appended to the list as it is.
keyDownUnfiltered(key, as) == Append(as, key)

\* A.snoc(keyUp(e)(as), e.key)
keyDown(key, as) == Append(keyUp(key, as), key)

InitKeys ==
    /\ RuntimeIdle
    /\ dpc = "off" /\ dseq = <<>> /\ composed = [tag |-> "none"]
    /\ regrouped = [tag |-> "none"] /\ canvasCalls = <<>>
    /\ psize \in PongSizes
    /\ pong = initialPong
    /\ keys = <<>>
    /\ lastEvent = [k \in KeyNames |-> "none"]
    /\ keyEvents = 0

\* A keydown event, the first of a key or a repeat of a held one.
KeyDownEvent ==
    /\ keyEvents < MaxKeyEvents
    /\ keyEvents' = keyEvents + 1
    /\ \E key \in KeyNames :
          /\ keys' = keyDown(key, keys)
          /\ lastEvent' = [lastEvent EXCEPT ![key] = "down"]
    /\ UNCHANGED <<psize, pong, hostVars>>

\* A keyup event, of a key in the list or not.
KeyUpEvent ==
    /\ keyEvents < MaxKeyEvents
    /\ keyEvents' = keyEvents + 1
    /\ \E key \in KeyNames :
          /\ keys' = keyUp(key, keys)
          /\ lastEvent' = [lastEvent EXCEPT ![key] = "up"]
    /\ UNCHANGED <<psize, pong, hostVars>>

NextKeys ==
    \/ KeyDownEvent
    \/ KeyUpEvent

SpecKeys == InitKeys /\ [][NextKeys]_vars

(***************************************************************************)
(* The claims.                                                             *)
(***************************************************************************)
RECURSIVE FoldLeft(_, _, _)
FoldLeft(rs, k, s) ==
    IF k = 0 THEN s ELSE Apply(rs[k], FoldLeft(rs, k - 1, s))

\* C1: once the fold is subscribed, it has produced one value for the seed and
\* one per reducer, and the value after the k-th reducer is
\* r(k-1)(...r0(initial)): the reducers applied left to right from initial.
C1_LeftFold ==
    folded # <<>> =>
        /\ Len(folded) = Len(applied) + 1
        /\ \A k \in 0..Len(applied) : folded[k + 1] = FoldLeft(applied, k, initial)
        /\ acc = FoldLeft(applied, Len(applied), initial)

C1_Witness ==
    /\ initial = 1
    /\ applied = <<"inc", "id", "dbl">>
    /\ folded = <<1, 2, 2, 4>>

\* C2: in scenario A (initial 0, the reducers x => x + 1 then x => x * 2, none
\* of them before run activated the sinks), the consumer of the state input
\* that the activation subscribed has observed exactly 0, 1, 2.
C2_ScenarioA ==
    ( /\ initial = 0
      /\ ~reactive
      /\ "draws" \in sinks
      /\ activatedAt = 1
      /\ handle = "open"
      /\ loopback = "open"
      /\ applied = <<"inc", "dbl">> )
    => observed = <<0, 1, 2>>

\* C3: once the Subscription of run is unsubscribed, no sink processes a value:
\* no Draw is rendered, no completion signal is produced, the aux sink sees
\* nothing, and nothing is scheduled for a frame.
C3_NoSinkAfterTeardown ==
    [][handle = "released" =>
          /\ rendered' = rendered
          /\ signals' = signals
          /\ auxSeen' = auxSeen
          /\ frameQueue' = <<>>]_vars

\* A reducer was applied after the consumer left, with a Draw rendered before.
C3_Witness ==
    /\ handle = "released"
    /\ "draws" \in sinks
    /\ rendered # <<>>
    /\ Len(folded) - activatedAt > Len(observed)

\* C4: once the Subscription of run is unsubscribed, no reducer is applied, no
\* state value is broadcast, and the sources of the state output have no
\* subscriber left.
C4_TeardownStopsFeedback ==
    [][handle = "released" =>
          /\ applied' = applied
          /\ folded' = folded
          /\ ~stateSubscribed']_vars

\* C5: when run has returned, receive was called exactly once for every
\* SinkOnly or Full driver, with the component's output of that name or else
\* with NEVER, and never for a SourceOnly driver; a sink given NEVER processes
\* nothing.
C5_ReceiveOncePerSink ==
    /\ \A k \in DOMAIN received : Len(received[k]) <= 1
    /\ pc = "running" =>
          \A i \in DOMAIN drivers :
              LET d == drivers[i]
              IN  IF d.tag \in {"SinkOnly", "Full"}
                  THEN received[d.key] =
                          <<IF d.key \in outputs \ {"state"}
                            THEN OutputStream(d.key) ELSE NEVER>>
                  ELSE received[d.key] = <<>>
    /\ "draws" \notin outputs => rendered = <<>> /\ frameQueue = <<>>
    /\ "aux" \notin outputs => auxSeen = 0

C5_Witness ==
    /\ pc = "running"
    /\ \E i \in DOMAIN drivers : drivers[i].tag = "Full" /\ drivers[i].key \notin outputs
    /\ "draws" \in outputs
    /\ rendered # <<>>

\* C6: the component is invoked at most once, exactly once before any receive
\* is called, and its input record has exactly the keys of the SourceOnly and
\* Full drivers, each mapped to that driver's provide.
C6_ComponentInvokedOnce ==
    /\ Len(invocations) <= 1
    /\ (\E k \in DOMAIN received : received[k] # <<>>) => Len(invocations) = 1
    /\ pc = "running" => Len(invocations) = 1
    /\ Len(invocations) = 1 =>
          /\ DOMAIN invocations[1] =
                {drivers[i].key : i \in {j \in DOMAIN drivers :
                                            drivers[j].tag \in {"SourceOnly", "Full"}}}
          /\ \A i \in DOMAIN drivers :
                drivers[i].tag \in {"SourceOnly", "Full"} =>
                    invocations[1][drivers[i].key] = drivers[i].provide

C6_Witness ==
    /\ pc = "running"
    /\ \E i \in DOMAIN drivers : drivers[i].tag = "Full"
    /\ \E i \in DOMAIN drivers : drivers[i].tag = "SinkOnly"
    /\ DOMAIN invocations[1] = {"dom", "aux"}

RECURSIVE ConcatGens(_, _)
ConcatGens(ds, k) ==
    IF k = 0 THEN <<>> ELSE ConcatGens(ds, k - 1) \o gen(ds[k])

\* C7: for a non-empty sequence of Draws, the traversal of all(seq) is the
\* concatenation, in order, of the traversals of its elements.
C7_AllConcatenates ==
    (dpc \in {"draw", "done"} /\ dseq # <<>>) =>
        gen(composed) = ConcatGens(dseq, Len(dseq))

\* Scenario C: the clear comes before the fill.
C7_Witness ==
    /\ dpc = "done"
    /\ dseq = <<clearRect(0, 0, 10, 10), fillRect(1, 1, 2, 2)>>
    /\ canvasCalls = <<[call |-> "clearRect", args |-> <<0, 0, 10, 10>>],
                       [call |-> "fillRect", args |-> <<1, 1, 2, 2>>]>>

\* The context operation that corresponds to each of the eight DrawOps.
ContextCall(op) ==
    [call |-> CASE op.tag = "FillRect" -> "fillRect"
                [] op.tag = "ClearRect" -> "clearRect"
                [] op.tag = "FillStyle" -> "fillStyle="
                [] op.tag = "StrokeStyle" -> "strokeStyle="
                [] op.tag = "BeginPath" -> "beginPath"
                [] op.tag = "Arc" -> "arc"
                [] op.tag = "Stroke" -> "stroke"
                [] op.tag = "Fill" -> "fill",
     args |-> op.args]

\* C8: draw applies, for every op of the traversal and in its order, exactly
\* the one context operation that corresponds to it.
C8_DrawInterpretsInFull ==
    dpc = "done" =>
        /\ Len(canvasCalls) = Len(gen(composed))
        /\ \A i \in 1..Len(gen(composed)) :
              i <= Len(canvasCalls) => canvasCalls[i] = ContextCall(gen(composed)[i])

\* C14: all applied to the empty sequence raises an error when the Draw is
\* constructed: no Draw comes back and nothing is ever drawn.
C14_AllOfNothingThrows ==
    (dseq = <<>> /\ dpc # "compose") =>
        /\ dpc = "failed"
        /\ composed.tag = "TypeError"
        /\ canvasCalls = <<>>

C14_Witness ==
    dseq = <<>> /\ dpc = "failed"

C9_ErrorIsolated ==
    reported > 0 =>
        \A k \in (DOMAIN sinkActive \cap outputs) \ {"draws"} : sinkActive[k]

\* C10: with the canvas element absent and no other failure (no reducer has
\* thrown), no error is raised and the run is not torn down.
C10_AbsentCanvasIsSilent ==
    (el = "null" /\ loopback = "open") => (reported = 0 /\ handle # "errored")

\* C11: a capability requested with a selector that matched no element gave,
\* without throwing, a stream that has emitted nothing, has not errored and
\* has not completed, whatever events and ticks came afterwards.
C11_MissingElementNeverEmits ==
    (req.cap # "none" /\ req.node = 0) =>
        /\ stream.op = "NEVER"
        /\ emitted = <<>>
        /\ dsub \in {"none", "open"}

C11_Witness ==
    /\ req = [cap |-> "keydown", node |-> 0]
    /\ dsub = "open"
    /\ node # 0
    /\ domEvents = MaxDomEvents
    /\ ticks >= 1
    /\ emitted = <<>>

\* The sequence with every run of equal neighbours cut down to its first.
RECURSIVE Dedupe(_)
Dedupe(q) ==
    IF Len(q) <= 1 THEN q
    ELSE IF q[1] = q[2] THEN Dedupe(Tail(q))
    ELSE <<q[1]>> \o Dedupe(Tail(q))

\* C19: for an element that exists, dimensions emits only at a tick and only a
\* size that differs from the one emitted before: what was emitted is the
\* sampled sizes with repeats cut out, the first sample is there, and no two
\* neighbours are equal.
C19_DimensionsDeduplicated ==
    (req.cap = "dimensions" /\ req.node # 0) =>
        /\ emitted = Dedupe(samples)
        /\ Len(emitted) <= ticks
        /\ samples # <<>> => emitted[1] = samples[1]
        /\ \A i \in 1..(Len(emitted) - 1) : emitted[i] # emitted[i + 1]

C19_Witness ==
    /\ req.cap = "dimensions"
    /\ req.node # 0
    /\ Len(samples) = 3
    /\ samples[1] = samples[2]
    /\ samples[2].width = samples[3].width
    /\ samples[2].height # samples[3].height
    /\ Len(emitted) = 2

\* C18: stateful hands the inner component every input it was itself given,
\* unchanged, and one more, state; the output record it returns has the inner
\* component's keys without state, each with the inner component's stream.
C18_StatefulPassesThrough ==
    Len(innerInputs) = 1 =>
        /\ DOMAIN innerInputs[1] = DOMAIN invocations[1] \cup {"state"}
        /\ \A k \in DOMAIN invocations[1] : innerInputs[1][k] = invocations[1][k]
        /\ innerInputs[1]["state"] = [capability |-> "loopback"]
        /\ DOMAIN returned = outputs \ {"state"}
        /\ \A k \in DOMAIN returned : returned[k] = OutputStream(k)
        /\ sinks = DOMAIN returned

C18_Witness ==
    /\ Len(innerInputs) = 1
    /\ DOMAIN innerInputs[1] = {"dom", "aux", "state"}
    /\ innerInputs[1]["dom"] = Provide("dom")
    /\ DOMAIN returned = {"draws", "aux"}
    /\ "state" \in outputs

\* C16: until a sink is activated nothing flows: the state output is not
\* subscribed and no reducer has been applied, stateful included.
C16_NothingBeforeActivation ==
    handle = "none" =>
        /\ ~stateSubscribed
        /\ applied = <<>>
        /\ folded = <<>>
        /\ broadcast = <<>>

\* C17: every reducer that reaches the fold causes exactly one broadcast on
\* the state input, in arrival order: after n reducers, n + 1 values have been
\* broadcast, the seed first, each the fold of the reducers so far.
C17_OneBroadcastPerReducer ==
    folded # <<>> =>
        /\ Len(broadcast) = Len(applied) + 1
        /\ broadcast = folded

C17_Witness ==
    /\ applied = <<"inc", "id", "id">>
    /\ broadcast = <<0, 1, 1, 1>>
    /\ loopback = "open"

\* a is b with some of its elements left out, the order kept.
RECURSIVE IsSubseq(_, _)
IsSubseq(a, b) ==
    IF a = <<>> THEN TRUE
    ELSE IF b = <<>> THEN FALSE
    ELSE IF Head(a) = Head(b) THEN IsSubseq(Tail(a), Tail(b))
    ELSE IsSubseq(a, Tail(b))

\* C15: every consumer of the state input is delivered the values in the order
\* the fold produced them, never an older one after a newer one, the reacting
\* state output included.
C15_ConsumersSeeFoldOrder ==
    /\ IsSubseq(observed, folded)
    /\ IsSubseq(reacted, folded)

\* The Draw notifications waiting for the animation frame.
QueuedDraws == SelectSeq(frameQueue, LAMBDA n : n.kind = "N")

\* C12 as stated: a refresh renders at most one Draw, the latest of those that
\* reached the sink since the refresh before.
C12_RendersLatest ==
    [][rendered' # rendered =>
          /\ Len(rendered') = Len(rendered) + 1
          /\ QueuedDraws # <<>>
          /\ rendered' = Append(rendered, QueuedDraws[Len(QueuedDraws)].draw)]_vars

\* C12: a refresh renders at most one Draw, the earliest of those that reached
\* the sink since the refresh before; the later ones are skipped.
C12_RendersEarliest ==
    [][rendered' # rendered =>
          /\ Len(rendered') = Len(rendered) + 1
          /\ QueuedDraws # <<>>
          /\ rendered' = Append(rendered, QueuedDraws[1].draw)]_vars

C12_Witness ==
    /\ flushed >= 2
    /\ Len(observed) >= 2
    /\ observed[1] # observed[2]
    /\ rendered = <<Frame(observed[1])>>
    /\ frameQueue = <<>>

\* C13: a component that requires an input the driver set does not provide
\* (dom, against the set holding only the SinkOnly draws driver) is rejected
\* before anything is subscribed: the component is not called, no receive is
\* called, no stream is subscribed.
C13_UnprovidedInputRejected ==
    ~(requires \subseteq DOMAIN CollectSources(drivers)) =>
        /\ pc \in {"typecheck", "rejected"}
        /\ invocations = <<>>
        /\ \A k \in DOMAIN received : received[k] = <<>>
        /\ handle = "none"
        /\ \A k \in DOMAIN sinkActive : ~sinkActive[k]
        /\ ~stateSubscribed
        /\ observers = <<>>

C13_Witness ==
    /\ pc = "rejected"
    /\ drivers = <<sinkDriver("draws")>>
    /\ requires = {"dom"}
    /\ outputs = {"draws", "state"}

\* C21: with the canvas at least 60 by 60 and the ball started at (20, 20)
\* with velocity (3, 3), whatever ticks and paddle motions are applied, the
\* ball centre stays within two ticks of travel (6) of the positions where it
\* touches a wall.
C21_BallStaysInCourt ==
    psize.width >= 60 =>
        /\ BALL_RADIUS - 6 <= pong.ball.x
        /\ pong.ball.x <= psize.width - BALL_RADIUS + 6
        /\ BALL_RADIUS - 6 <= pong.ball.y
        /\ pong.ball.y <= psize.height - BALL_RADIUS + 6

C21_Witness ==
    /\ psize.width >= 60
    /\ pong.ball.x = BALL_RADIUS - 5
    /\ pong.velocity.x < 0
    /\ pong.leftPaddle # initialPong.leftPaddle
    /\ pong.rightPaddle # initialPong.rightPaddle

\* C22: after any keydown and keyup events, the pressed-key list holds no key
\* twice, holds every key whose last event was a keydown, and holds no key
\* whose last event was a keyup (nor one that had no event).
C22_PressedKeysExact ==
    /\ \A i, j \in DOMAIN keys : i # j => keys[i] # keys[j]
    /\ \A k \in KeyNames :
          /\ lastEvent[k] = "down" => \E i \in DOMAIN keys : keys[i] = k
          /\ lastEvent[k] = "up" => \A i \in DOMAIN keys : keys[i] # k
          /\ lastEvent[k] = "none" => \A i \in DOMAIN keys : keys[i] # k

C22_Witness ==
    /\ keyEvents = MaxKeyEvents
    /\ keys = <<"s", "w">>
    /\ lastEvent = [k \in KeyNames |->
                       IF k \in {"s", "w"} THEN "down"
                       ELSE IF k = "ArrowUp" THEN "up" ELSE "none"]

====
